---- MODULE Spec2Model ----
(***************************************************************************)
(* Model of the minesweeper grid engine in src/src/sweep.rs: Board::new,   *)
(* expose, expose_all, flag, flag_all, won and available_flags, together   *)
(* with the adjacency computation used at construction.                    *)
(*                                                                         *)
(* Tiles are indexed 0..rows*columns-1 in row-major order, as in the Vec.  *)
(* `board` is the Board struct and `op` the last call made on it, with its  *)
(* arguments and its return value.                                         *)
(*                                                                         *)
(* `events` is the Events value of src/src/events.rs: the channel, its     *)
(* receiver, the input thread, the tick thread and the caller of next().   *)
(***************************************************************************)
EXTENDS Integers, FiniteSets, Sequences, TLC

VARIABLES board, op, events

vars == <<board, op, events>>

----------------------------------------------------------------------------
(* Bounds of the exploration *)

\* boards have at most MaxTiles tiles, in any rows x columns shape
MaxTiles == 3

\* the mine counts asked of Board::new
MaxMines == 2

\* cap on correctly_flagged_mines, which the code can raise without limit
MaxCorrect == 2

\* the grids built when only construction is examined
MaxGridRows == 3

MaxGridColumns == 3

MaxGridMines == 3

\* the mine-free grids on which the flood fill is run to its end
MaxEmptyRows == 4

MaxEmptyColumns == 4

\* the boards on which every order of exposing the tiles is tried
MaxOrderTiles == 3

MaxOrderMines == 1

\* cap on the events waiting in the channel, which the code does not bound
MaxQueue == 2

----------------------------------------------------------------------------
(* Coordinates and adjacency *)

index_from_coord(r, c, columns) == r * columns + c

coord_from_index(index, columns) == <<index \div columns, index % columns>>

INCREMENTS == {"One", "NegOne", "Zero"}

\* Increment::offset with NegOne leaving the value where it is
offset_noneg(incr, value) ==
    CASE incr = "One" -> value + 1
      [] incr = "NegOne" -> value
      [] incr = "Zero" -> value

offset(incr, value) ==
    CASE incr = "One" -> value + 1
      [] incr = "NegOne" -> IF value = 0 THEN 0 ELSE value - 1
      [] incr = "Zero" -> value

\* the filter_map closure without the test that drops the cell itself
adjacent_keep_noself(row_incr, column_incr, row, column, rows, columns) ==
    LET row_offset == offset(row_incr, row)
        column_offset == offset(column_incr, column)
    IN  /\ ~(row_incr = "Zero" /\ column_incr = "Zero")
        /\ row_offset < rows
        /\ column_offset < columns

\* the filter_map closure of `adjacent`: TRUE when the pair yields Some(index)
adjacent_keep(row_incr, column_incr, row, column, rows, columns) ==
    LET row_offset == offset(row_incr, row)
        column_offset == offset(column_incr, column)
    IN  /\ ~(row_offset = row /\ column_offset = column)
        /\ ~(row_incr = "Zero" /\ column_incr = "Zero")
        /\ row_offset < rows
        /\ column_offset < columns

\* the indices produced by the iterator, collected into a BitSet
adjacent(row, column, rows, columns) ==
    { index_from_coord(offset(p[1], row), offset(p[2], column), columns) :
        p \in { q \in INCREMENTS \X INCREMENTS :
                  adjacent_keep(q[1], q[2], row, column, rows, columns) } }

----------------------------------------------------------------------------
(* Construction *)

NoTiles == [i \in {} |-> 0]

\* the tile vector with the mine test one index off
new_tiles_shifted(rows, columns, samples) ==
    [i \in 0..(rows * columns - 1) |->
        LET point == coord_from_index(i, columns)
            adjacent_tiles == adjacent(point[1], point[2], rows, columns)
        IN  [adjacent_tiles |-> adjacent_tiles,
             mine |-> (i + 1) \in samples,
             exposed |-> FALSE,
             flagged |-> FALSE,
             adjacent_mines |->
                 Cardinality({index \in adjacent_tiles : index \in samples})]]

\* the tile vector built by Board::new from the sampled mine indices
new_tiles(rows, columns, samples) ==
    [i \in 0..(rows * columns - 1) |->
        LET point == coord_from_index(i, columns)
            adjacent_tiles == adjacent(point[1], point[2], rows, columns)
        IN  [adjacent_tiles |-> adjacent_tiles,
             mine |-> i \in samples,
             exposed |-> FALSE,
             flagged |-> FALSE,
             adjacent_mines |->
                 Cardinality({index \in adjacent_tiles : index \in samples})]]

\* Board::new has a single return, Ok(Self {..}); index::sample panics when
\* asked for more samples than there are indices
Board_new(rows, columns, mines, samples) ==
    [result |-> IF mines > rows * columns THEN "Panic" ELSE "Ok",
     board |-> [tiles |-> IF mines > rows * columns THEN NoTiles
                          ELSE new_tiles(rows, columns, samples),
                rows |-> rows,
                columns |-> columns,
                mines |-> mines,
                flagged_cells |-> 0,
                correctly_flagged_mines |-> 0,
                seen |-> {}]]

\* the outcomes of rand::seq::index::sample(rng, length, amount)
sample(length, amount) ==
    IF amount > length THEN {{}}
    ELSE {s \in SUBSET (0..(length - 1)) : Cardinality(s) = amount}

----------------------------------------------------------------------------
(* Queries *)

ntiles(b) == Cardinality(DOMAIN b.tiles)

\* the assertion of available_flags
available_flags_assert(b) == b.flagged_cells <= b.mines

available_flags(b) == b.mines - b.flagged_cells

\* the assertion of won
won_assert(b) ==
    Cardinality(b.seen) + b.correctly_flagged_mines <= b.rows * b.columns

won(b) ==
    LET nseen == Cardinality(b.seen)
        exposed_or_correctly_flagged == nseen + b.correctly_flagged_mines
        n == b.rows * b.columns
    IN  n = exposed_or_correctly_flagged \/ (ntiles(b) - nseen) = b.mines

\* Board::tile / Board::tile_mut: TRUE when tiles.get(index) is Some
tile_ok(b, i, j) == index_from_coord(i, j, b.columns) \in DOMAIN b.tiles

tile(b, i, j) == b.tiles[index_from_coord(i, j, b.columns)]

----------------------------------------------------------------------------
(* expose *)

RECURSIVE bitset_iter(_)
\* iteration over a BitSet, in ascending order
bitset_iter(S) ==
    IF S = {} THEN <<>>
    ELSE LET m == CHOOSE x \in S : \A y \in S : x <= y
         IN  <<m>> \o bitset_iter(S \ {m})

RECURSIVE map_coord(_, _)
map_coord(s, columns) ==
    IF s = <<>> THEN <<>>
    ELSE <<coord_from_index(Head(s), columns)>> \o map_coord(Tail(s), columns)

\* the flood fill exposing a newly seen tile whatever its flag
fill_exposed_flagged(t) == ~t.mine

\* what the flood fill writes into `exposed` of a newly seen tile
fill_exposed(t) == ~(t.mine \/ t.flagged)

\* the flood fill going on from every tile, whatever its count
spreads_always(t) == TRUE

\* the flood fill going on from no tile
spreads_never(t) == FALSE

\* the flood fill going on from a tile with one adjacent mine too
spreads_on_one(t) == t.adjacent_mines <= 1

\* the flood fill goes on from a tile without adjacent mines
spreads(t) == t.adjacent_mines = 0

RECURSIVE expose_loop(_, _)
\* the while-let loop over the VecDeque `coordinates`
expose_loop(b, coordinates) ==
    IF coordinates = <<>> THEN [board |-> b, result |-> "Ok(false)"]
    ELSE LET rc == Head(coordinates)
             rest == Tail(coordinates)
             idx == index_from_coord(rc[1], rc[2], b.columns)
         IN  IF idx \notin b.seen
             THEN LET b1 == [b EXCEPT !.seen = @ \cup {idx}]
                  IN  IF ~tile_ok(b1, rc[1], rc[2])
                      THEN [board |-> b1, result |-> "Err"]
                      ELSE LET t == b1.tiles[idx]
                               b2 == [b1 EXCEPT !.tiles[idx].exposed = fill_exposed(t)]
                               more == IF spreads(t)
                                       THEN map_coord(bitset_iter(t.adjacent_tiles), b.columns)
                                       ELSE <<>>
                           IN  expose_loop(b2, rest \o more)
             ELSE expose_loop(b, rest)

\* expose sending a mine through the flood fill like any other tile
expose_fill_mine(b, r, c) ==
    IF ~tile_ok(b, r, c) THEN [board |-> b, result |-> "Err"]
    ELSE expose_loop(b, <<<<r, c>>>>)

\* expose marking its target exposed before the flood fill looks at seen
expose_target_first(b, r, c) ==
    IF ~tile_ok(b, r, c) THEN [board |-> b, result |-> "Err"]
    ELSE IF tile(b, r, c).mine
    THEN [board |-> [b EXCEPT !.tiles[index_from_coord(r, c, b.columns)].exposed = TRUE],
          result |-> "Ok(true)"]
    ELSE expose_loop(
            [b EXCEPT !.tiles[index_from_coord(r, c, b.columns)].exposed = TRUE],
            <<<<r, c>>>>)

expose(b, r, c) ==
    IF ~tile_ok(b, r, c) THEN [board |-> b, result |-> "Err"]
    ELSE IF tile(b, r, c).mine
    THEN [board |-> [b EXCEPT !.tiles[index_from_coord(r, c, b.columns)].exposed = TRUE],
          result |-> "Ok(true)"]
    ELSE expose_loop(b, <<<<r, c>>>>)

RECURSIVE expose_from(_, _)
\* try_for_each over the indices i, i+1, .. of expose_all
expose_from(b, i) ==
    IF i >= ntiles(b) THEN [board |-> b, result |-> "Ok"]
    ELSE LET coord == coord_from_index(i, b.columns)
             res == expose(b, coord[1], coord[2])
         IN  IF res.result = "Err" THEN res
             ELSE expose_from(res.board, i + 1)

\* expose_all starting its range at 1
expose_all_from1(b) == expose_from(b, 1)

expose_all(b) == expose_from(b, 0)

----------------------------------------------------------------------------
(* flag *)

flag_all(b) ==
    [b EXCEPT !.tiles = [i \in DOMAIN b.tiles |->
        [b.tiles[i] EXCEPT !.flagged = ~b.tiles[i].exposed /\ b.tiles[i].mine]]]

bool_to_str(x) == IF x THEN "Ok(true)" ELSE "Ok(false)"

\* usize::saturating_sub(1) without the subtraction
saturating_sub_none(n) == n

\* usize::saturating_sub(1)
saturating_sub(n) == IF n = 0 THEN 0 ELSE n - 1

\* the else-if test of flag without the budget
may_flag_any(nflagged, nmines, exposed) == ~exposed

\* the else-if test of flag without the exposed test
may_flag_exposed(nflagged, nmines, exposed) == nflagged < nmines

\* the else-if test of flag: a new flag is placed only under the budget and
\* only on a tile that is not exposed
may_flag(nflagged, nmines, exposed) == nflagged < nmines /\ ~exposed

flag(b, i, j) ==
    IF ~tile_ok(b, i, j) THEN [board |-> b, result |-> "Err"]
    ELSE LET nflagged == b.flagged_cells
             t == tile(b, i, j)
             idx == index_from_coord(i, j, b.columns)
             was_flagged == t.flagged
             flagged == ~was_flagged
             nmines == b.mines
             b1 == [b EXCEPT !.correctly_flagged_mines =
                        @ + (IF flagged /\ t.mine THEN 1 ELSE 0)]
         IN  [result |-> bool_to_str(flagged),
              board |->
                IF was_flagged
                THEN [b1 EXCEPT !.flagged_cells = saturating_sub(@),
                                !.tiles[idx].flagged = flagged]
                ELSE IF may_flag(nflagged, nmines, t.exposed)
                THEN [b1 EXCEPT !.tiles[idx].flagged = flagged,
                                !.flagged_cells = @ + 1]
                ELSE b1]

----------------------------------------------------------------------------
(* The event channel of src/src/events.rs *)

\* Events::with_config: the channel is empty, the receiver is held by the
\* Events value, the input thread is about to read and the tick thread about
\* to send; nobody has called next() yet
with_config ==
    [rx |-> "alive", queue |-> <<>>,
     input_thread |-> "read", read |-> "None",
     tick_thread |-> "send",
     next |-> "idle", result |-> "None"]

\* Sender::send: fails once the receiver is gone, queues the message otherwise
send(e, msg) ==
    IF e.rx = "dropped"
    THEN [result |-> "Err", queue |-> e.queue]
    ELSE [result |-> "Ok", queue |-> Append(e.queue, msg)]

\* the Senders not yet dropped: the clone owned by the input thread and the
\* original owned by the tick thread
senders(e) ==
    (IF e.input_thread = "returned" THEN 0 ELSE 1)
        + (IF e.tick_thread = "exited" THEN 0 ELSE 1)

\* Receiver::recv can return: a message is queued, or every Sender is dropped
recv_ready(e) == e.queue # <<>> \/ senders(e) = 0

\* Receiver::recv, once it can return
recv(e) ==
    IF e.queue # <<>>
    THEN [result |-> IF Head(e.queue) = "Input" THEN "Ok(Input)" ELSE "Ok(Tick)",
          queue |-> Tail(e.queue)]
    ELSE [result |-> "Err", queue |-> e.queue]

\* the input thread returns when its send failed
input_returns(sent) == sent = "Err"

\* the tick thread leaving its loop when a send went through
tick_breaks_on_ok(sent) == sent = "Ok"

\* the tick thread leaves its loop when its send failed
tick_breaks(sent) == sent = "Err"

----------------------------------------------------------------------------
(* The state machine: one Board, called by a single driver thread *)

Call(name, r, c, res) ==
    /\ board' = res.board
    /\ op' = [name |-> name, r |-> r, c |-> c, result |-> res.result]
    /\ UNCHANGED events

Init ==
    \E rows \in 0..MaxTiles, columns \in 0..MaxTiles, mines \in 0..MaxMines :
        /\ rows * columns <= MaxTiles
        /\ \E samples \in sample(rows * columns, mines) :
          LET res == Board_new(rows, columns, mines, samples)
          IN  /\ board = res.board
              /\ op = [name |-> "new", r |-> rows, c |-> columns, result |-> res.result]
              /\ events = with_config

Constructed == ~(op.name = "new" /\ op.result = "Panic")

InRange(r, c) == r < board.rows /\ c < board.columns

\* the coordinates of the grid
InCoords == (0..(board.rows - 1)) \X (0..(board.columns - 1))

\* coordinates outside the grid offered to the board: the column past the end
\* of each row, and the row past the last one
OutCoords ==
    {<<r, board.columns>> : r \in 0..(board.rows - 1)} \cup {<<board.rows, 0>>}

Expose ==
    /\ Constructed
    /\ \E rc \in InCoords :
        Call("expose", rc[1], rc[2], expose(board, rc[1], rc[2]))

ExposeOutOfRange ==
    /\ Constructed
    /\ \E rc \in OutCoords :
        Call("expose", rc[1], rc[2], expose(board, rc[1], rc[2]))

Flag ==
    /\ Constructed
    /\ \E rc \in InCoords :
        LET res == flag(board, rc[1], rc[2])
        IN  /\ res.board.correctly_flagged_mines <= MaxCorrect
            /\ Call("flag", rc[1], rc[2], res)

FlagOutOfRange ==
    /\ Constructed
    /\ \E rc \in OutCoords :
        LET res == flag(board, rc[1], rc[2])
        IN  /\ res.board.correctly_flagged_mines <= MaxCorrect
            /\ Call("flag", rc[1], rc[2], res)

ExposeAll ==
    /\ Constructed
    /\ Call("expose_all", 0, 0, expose_all(board))

FlagAll ==
    /\ Constructed
    /\ Call("flag_all", 0, 0, [board |-> flag_all(board), result |-> "Ok"])

Next ==
    \/ Expose
    \/ ExposeOutOfRange
    \/ Flag
    \/ FlagOutOfRange
    \/ ExposeAll
    \/ FlagAll

Spec == Init /\ [][Next]_vars

\* play without flag_all
NextPlay ==
    \/ Expose
    \/ ExposeOutOfRange
    \/ Flag
    \/ FlagOutOfRange
    \/ ExposeAll

SpecPlay == Init /\ [][NextPlay]_vars

----------------------------------------------------------------------------
(* Construction alone, on larger grids: the driver only reads tiles back *)

InitGrid ==
    \E rows \in 1..MaxGridRows, columns \in 1..MaxGridColumns, mines \in 0..MaxGridMines :
        /\ mines <= rows * columns
        /\ \E samples \in sample(rows * columns, mines) :
          LET res == Board_new(rows, columns, mines, samples)
          IN  /\ board = res.board
              /\ op = [name |-> "new", r |-> rows, c |-> columns, result |-> res.result]
              /\ events = with_config

\* Board::tile called by the renderer
ReadTile ==
    \E rc \in InCoords \cup OutCoords :
        /\ op' = [name |-> "tile", r |-> rc[1], c |-> rc[2],
                  result |-> IF tile_ok(board, rc[1], rc[2]) THEN "Ok" ELSE "Err"]
        /\ UNCHANGED <<board, events>>

NextGrid == ReadTile

SpecGrid == InitGrid /\ [][NextGrid]_vars

----------------------------------------------------------------------------
(* Play on grids built without mines *)

InitEmpty ==
    \E rows \in 1..MaxEmptyRows, columns \in 1..MaxEmptyColumns :
        \E samples \in sample(rows * columns, 0) :
          LET res == Board_new(rows, columns, 0, samples)
          IN  /\ board = res.board
              /\ op = [name |-> "new", r |-> rows, c |-> columns, result |-> res.result]
              /\ events = with_config

NextEmpty ==
    \/ Expose
    \/ Flag

SpecEmpty == InitEmpty /\ [][NextEmpty]_vars

----------------------------------------------------------------------------
(* Play with in-range calls only, on the boards used to compare orders *)

InitOrder ==
    \E rows \in 1..MaxOrderTiles, columns \in 1..MaxOrderTiles, mines \in 0..MaxOrderMines :
        /\ rows * columns <= MaxOrderTiles
        /\ mines <= rows * columns
        /\ \E samples \in sample(rows * columns, mines) :
          LET res == Board_new(rows, columns, mines, samples)
          IN  /\ board = res.board
              /\ op = [name |-> "new", r |-> rows, c |-> columns, result |-> res.result]
              /\ events = with_config

NextOrder ==
    \/ Expose
    \/ Flag
    \/ ExposeAll

SpecOrder == InitOrder /\ [][NextOrder]_vars

\* the same boards and in-range calls, with flag_all among the calls
NextCalls ==
    \/ Expose
    \/ Flag
    \/ ExposeAll
    \/ FlagAll

SpecCalls == InitOrder /\ [][NextCalls]_vars

----------------------------------------------------------------------------
(* The event threads: input thread, tick thread and the caller of next() *)

InitEvents ==
    LET res == Board_new(0, 0, 0, {})
    IN  /\ board = res.board
        /\ op = [name |-> "new", r |-> 0, c |-> 0, result |-> res.result]
        /\ events = with_config

\* a send can be taken: the channel has room, or the send is going to fail
CanSend == Len(events.queue) < MaxQueue \/ events.rx = "dropped"

\* the input thread: event::read() returns a key, another event or an error;
\* only a key is sent on
InputRead ==
    /\ events.input_thread = "read"
    /\ \E outcome \in {"Key", "Other", "Err"} :
        events' = [events EXCEPT
                      !.read = outcome,
                      !.input_thread = IF outcome = "Key" THEN "send" ELSE "read"]
    /\ UNCHANGED <<board, op>>

\* the input thread: tx.send(Event::Input(key)), returning when it fails
InputSend ==
    /\ events.input_thread = "send"
    /\ CanSend
    /\ LET sent == send(events, "Input")
       IN  events' = [events EXCEPT
                         !.queue = sent.queue,
                         !.input_thread = IF input_returns(sent.result)
                                          THEN "returned" ELSE "read"]
    /\ UNCHANGED <<board, op>>

\* the tick thread: tx.send(Event::Tick), leaving the loop when it fails
TickSend ==
    /\ events.tick_thread = "send"
    /\ CanSend
    /\ LET sent == send(events, "Tick")
       IN  events' = [events EXCEPT
                         !.queue = sent.queue,
                         !.tick_thread = IF tick_breaks(sent.result)
                                         THEN "exited" ELSE "sleep"]
    /\ UNCHANGED <<board, op>>

\* the tick thread: thread::sleep(tick_rate) is over
TickWake ==
    /\ events.tick_thread = "sleep"
    /\ events' = [events EXCEPT !.tick_thread = "send"]
    /\ UNCHANGED <<board, op>>

\* the driver calls Events::next, which borrows the Events value
NextCall ==
    /\ events.rx = "alive"
    /\ events.next = "idle"
    /\ events' = [events EXCEPT !.next = "recv", !.result = "None"]
    /\ UNCHANGED <<board, op>>

\* rx.recv() returns to the caller of next
NextReturn ==
    /\ events.next = "recv"
    /\ recv_ready(events)
    /\ LET got == recv(events)
       IN  events' = [events EXCEPT
                         !.queue = got.queue,
                         !.result = got.result,
                         !.next = "idle"]
    /\ UNCHANGED <<board, op>>

\* the driver drops the Events value, and with it the receiver and what was
\* queued; no call to next is in progress then
DropEvents ==
    /\ events.rx = "alive"
    /\ events.next = "idle"
    /\ events' = [events EXCEPT !.rx = "dropped", !.queue = <<>>]
    /\ UNCHANGED <<board, op>>

NextEvents ==
    \/ InputRead
    \/ InputSend
    \/ TickSend
    \/ TickWake
    \/ NextCall
    \/ NextReturn
    \/ DropEvents

\* the threads are scheduled and the sleep ends: the tick thread keeps taking
\* its steps, and a recv that can return does. Keys come when they come.
SpecEvents ==
    /\ InitEvents
    /\ [][NextEvents]_vars
    /\ WF_vars(TickSend)
    /\ WF_vars(TickWake)
    /\ WF_vars(InputSend)
    /\ WF_vars(NextReturn)

----------------------------------------------------------------------------
(* Vocabulary of the properties *)

Tiles == DOMAIN board.tiles

Idx(rc) == index_from_coord(rc[1], rc[2], board.columns)

SafeTiles == {i \in Tiles : ~board.tiles[i].mine}

MineTiles == {i \in Tiles : board.tiles[i].mine}

FlaggedMines == {i \in Tiles : board.tiles[i].mine /\ board.tiles[i].flagged}

ValidBoard ==
    /\ Constructed
    /\ board.rows > 0
    /\ board.columns > 0
    /\ board.mines <= board.rows * board.columns

Abs(x) == IF x < 0 THEN -x ELSE x

\* the in-range cells at Chebyshev distance 1 from cell i
Chebyshev1(i, rows, columns) ==
    {j \in 0..(rows * columns - 1) :
        /\ j # i
        /\ Abs((j \div columns) - (i \div columns)) <= 1
        /\ Abs((j % columns) - (i % columns)) <= 1}

----------------------------------------------------------------------------
(* C1..C3: the win check and the count of correctly flagged mines *)

\* C1: on a board built with valid parameters, won() returns true exactly
\* when every non-mine tile's index is in seen (stated for the calls of won()
\* that return, i.e. whose assertion passes).
C1_WonIffSafeSeen ==
    (ValidBoard /\ won_assert(board)) =>
        (won(board) <=> (SafeTiles \subseteq board.seen))

\* C2: |seen| + correctly_flagged_mines <= rows*columns in every reachable
\* state, so the assertion inside won() never fails.
C2_WonAssertHolds ==
    Constructed => won_assert(board)

\* C3: after every flag call correctly_flagged_mines equals the number of
\* tiles that are both mine and flagged, hence it is at most mines.
C3_CorrectlyFlaggedIsCount ==
    op.name = "flag" =>
        /\ board.correctly_flagged_mines = Cardinality(FlaggedMines)
        /\ board.correctly_flagged_mines <= board.mines

----------------------------------------------------------------------------
(* C4: the flag budget *)

\* C4: flagged_cells <= mines in every reachable state (so the assertion of
\* available_flags holds and mines - flagged_cells does not underflow), and a
\* flag call on an unflagged tile while available_flags() = 0 neither flags
\* the tile nor changes flagged_cells.
C4_FlagBudget ==
    Constructed =>
        /\ available_flags_assert(board)
        /\ available_flags(board) >= 0
        /\ \A rc \in InCoords :
             (~board.tiles[Idx(rc)].flagged /\ available_flags(board) = 0) =>
                LET after == flag(board, rc[1], rc[2]).board
                IN  /\ ~after.tiles[Idx(rc)].flagged
                    /\ after.flagged_cells = board.flagged_cells

\* a flag call has just been refused for want of budget
C4_Witness ==
    /\ op.name = "flag"
    /\ InRange(op.r, op.c)
    /\ op.result = "Ok(true)"
    /\ board.mines > 0
    /\ board.flagged_cells = board.mines
    /\ ~tile(board, op.r, op.c).flagged
    /\ ~tile(board, op.r, op.c).exposed

----------------------------------------------------------------------------
(* C5, C6: errors *)

\* C5: expose and flag on a coordinate outside [0,rows) x [0,columns) return
\* the "no such tile" error.
C5_OutOfRangeIsError ==
    (op.name \in {"expose", "flag"} /\ ~InRange(op.r, op.c)) => op.result = "Err"

\* C6: Board::new returns a construction error when rows = 0, columns = 0 or
\* mines > rows*columns, and a Board only for valid parameters.
C6_NewRejectsInvalid ==
    op.name = "new" =>
        LET invalid == op.r = 0 \/ op.c = 0 \/ board.mines > op.r * op.c
        IN  /\ invalid => op.result = "Err"
            /\ op.result = "Ok" => ~invalid

----------------------------------------------------------------------------
(* C7: flagging twice *)

\* the board after flag(r,c) called twice in a row
flag_twice(b, r, c) == flag(flag(b, r, c).board, r, c).board

\* C7: for every in-range (r,c), flag(r,c) twice in a row returns the tile's
\* flagged bit and flagged_cells to their values before the first call, also
\* when the tile is flagged and already exposed.
C7_FlagTwiceRestores ==
    Constructed =>
        \A rc \in InCoords :
            LET after == flag_twice(board, rc[1], rc[2])
            IN  /\ after.tiles[Idx(rc)].flagged = board.tiles[Idx(rc)].flagged
                /\ after.flagged_cells = board.flagged_cells

\* C7 (amended): the same, for every in-range (r,c) whose tile is not both
\* flagged and exposed.
C7_FlagTwiceRestoresUnlessExposedFlag ==
    Constructed =>
        \A rc \in InCoords :
            ~(board.tiles[Idx(rc)].flagged /\ board.tiles[Idx(rc)].exposed) =>
                LET after == flag_twice(board, rc[1], rc[2])
                IN  /\ after.tiles[Idx(rc)].flagged = board.tiles[Idx(rc)].flagged
                    /\ after.flagged_cells = board.flagged_cells

\* a first flag call has placed a flag that the second call will take back,
\* on a board where another tile is refused for want of budget
C7_Witness ==
    /\ op.name = "flag"
    /\ InRange(op.r, op.c)
    /\ op.result = "Ok(true)"
    /\ tile(board, op.r, op.c).flagged
    /\ ~tile(board, op.r, op.c).exposed
    /\ board.flagged_cells = board.mines
    /\ \E i \in Tiles : ~board.tiles[i].flagged

----------------------------------------------------------------------------
(* C8: expose_all *)

\* C8: after expose_all() every tile of the board has exposed = true.
C8_ExposeAllExposesAll ==
    op.name = "expose_all" => \A i \in Tiles : board.tiles[i].exposed

\* C8 (amended): after expose_all() every mine is exposed and every safe tile
\* is in seen; a safe tile that was unseen and unflagged at the call is
\* exposed, one that carried a flag at the call stays unexposed.
C8_ExposeAllMinesExposedSafeSeen ==
    Constructed =>
        /\ op.name = "expose_all" =>
              /\ op.result = "Ok"
              /\ \A i \in MineTiles : board.tiles[i].exposed
              /\ SafeTiles \subseteq board.seen
        /\ LET after == expose_all(board).board
           IN  \A i \in Tiles :
                 /\ board.tiles[i].mine => after.tiles[i].exposed
                 /\ ~board.tiles[i].mine => i \in after.seen
                 /\ (~board.tiles[i].mine /\ i \notin board.seen /\ ~board.tiles[i].flagged)
                        => after.tiles[i].exposed
                 /\ (~board.tiles[i].mine /\ board.tiles[i].flagged)
                        => ~after.tiles[i].exposed
                 /\ board.tiles[i].exposed => after.tiles[i].exposed

\* expose_all has run over a board with a flagged safe tile and a mine
C8_Witness ==
    /\ op.name = "expose_all"
    /\ \E i \in SafeTiles :
          board.tiles[i].flagged /\ ~board.tiles[i].exposed /\ i \in board.seen
    /\ \E i \in SafeTiles : board.tiles[i].exposed
    /\ \E i \in MineTiles : board.tiles[i].exposed

----------------------------------------------------------------------------
(* C9: flagged and exposed *)

\* C9: in every reachable state no tile is both flagged and exposed.
C9_NoTileFlaggedAndExposed ==
    \A i \in Tiles : ~(board.tiles[i].flagged /\ board.tiles[i].exposed)

\* C9 (amended): no safe tile is both flagged and exposed; flag never places
\* a flag on an exposed tile; the only expose step that sets exposed on a
\* flagged tile is the direct mine branch, on the mine it was called on.
C9_OnlyMinesFlaggedAndExposed ==
    Constructed =>
        /\ \A i \in Tiles :
              (board.tiles[i].flagged /\ board.tiles[i].exposed) => board.tiles[i].mine
        /\ \A rc \in InCoords :
              /\ (board.tiles[Idx(rc)].exposed /\ ~board.tiles[Idx(rc)].flagged)
                    => ~flag(board, rc[1], rc[2]).board.tiles[Idx(rc)].flagged
              /\ LET after == expose(board, rc[1], rc[2]).board
                 IN  \A i \in Tiles :
                        (board.tiles[i].flagged /\ ~board.tiles[i].exposed
                            /\ after.tiles[i].exposed)
                        => (board.tiles[i].mine /\ i = Idx(rc))

\* a flood fill has passed over a flagged safe tile and left it unexposed,
\* and somewhere a tile is exposed
C9_Witness ==
    /\ op.name = "expose"
    /\ op.result = "Ok(false)"
    /\ \E i \in SafeTiles :
          board.tiles[i].flagged /\ i \in board.seen /\ ~board.tiles[i].exposed
    /\ \E i \in Tiles : board.tiles[i].exposed

----------------------------------------------------------------------------
(* C10: adjacency *)

\* C10: for every cell of every grid, the precomputed adjacency set is exactly
\* the set of in-range cells at Chebyshev distance 1 (never the cell itself),
\* and adjacent_mines is the number of mines in it, between 0 and 8.
C10_AdjacencyIsChebyshev ==
    \A i \in Tiles :
        LET near == Chebyshev1(i, board.rows, board.columns)
        IN  /\ board.tiles[i].adjacent_tiles = near
            /\ i \notin board.tiles[i].adjacent_tiles
            /\ board.tiles[i].adjacent_tiles \subseteq Tiles
            /\ board.tiles[i].adjacent_mines =
                  Cardinality({j \in near : board.tiles[j].mine})
            /\ board.tiles[i].adjacent_mines \in 0..8

\* the corner cell (0,0) of a grid with a second row and column has been
\* read: both -1 offsets saturate there, and it has a mine beside it
C10_Witness ==
    /\ op.name = "tile"
    /\ op.r = 0
    /\ op.c = 0
    /\ board.rows >= 2
    /\ board.columns >= 2
    /\ Cardinality(board.tiles[0].adjacent_tiles) = 3
    /\ board.tiles[0].adjacent_mines >= 1

----------------------------------------------------------------------------
(* C11: flood fill on a board without mines *)

\* C11: on a board with mines = 0, a single expose of any in-range tile
\* leaves every tile exposed and every index in seen.
C11_EmptyBoardFullyExposed ==
    board.mines = 0 =>
        /\ op.name = "expose" =>
              /\ op.result = "Ok(false)"
              /\ \A i \in Tiles : board.tiles[i].exposed
              /\ board.seen = Tiles
        /\ \A rc \in InCoords :
              LET after == expose(board, rc[1], rc[2]).board
              IN  /\ \A i \in Tiles : after.tiles[i].exposed
                  /\ after.seen = Tiles

\* the last tile of a grid of three rows and columns or more has been exposed
\* and the fill has reached the first tile
C11_Witness ==
    /\ op.name = "expose"
    /\ board.mines = 0
    /\ board.rows >= 3
    /\ board.columns >= 3
    /\ op.r = board.rows - 1
    /\ op.c = board.columns - 1
    /\ board.tiles[0].exposed
    /\ board.seen = Tiles

----------------------------------------------------------------------------
(* C12, C13: what a single expose leaves alone *)

\* C12: expose on a mine returns hit = true and changes nothing but that
\* tile's exposed bit: seen, the other tiles, every flagged bit and both
\* counters are unchanged.
C12_MineHitTouchesOnlyItsTile ==
    Constructed =>
        /\ (op.name = "expose" /\ op.result = "Ok(true)") =>
              (tile(board, op.r, op.c).mine /\ tile(board, op.r, op.c).exposed)
        /\ \A rc \in InCoords :
              board.tiles[Idx(rc)].mine =>
                LET res == expose(board, rc[1], rc[2])
                IN  /\ res.result = "Ok(true)"
                    /\ res.board.tiles[Idx(rc)].exposed
                    /\ res.board.tiles[Idx(rc)].flagged = board.tiles[Idx(rc)].flagged
                    /\ \A i \in Tiles \ {Idx(rc)} : res.board.tiles[i] = board.tiles[i]
                    /\ res.board.seen = board.seen
                    /\ res.board.flagged_cells = board.flagged_cells
                    /\ res.board.correctly_flagged_mines = board.correctly_flagged_mines

\* a mine has been hit on a board where nothing else is exposed or seen,
\* although it has a safe tile beside it
C12_Witness ==
    /\ op.name = "expose"
    /\ InRange(op.r, op.c)
    /\ op.result = "Ok(true)"
    /\ tile(board, op.r, op.c).exposed
    /\ board.seen = {}
    /\ \E i \in tile(board, op.r, op.c).adjacent_tiles :
          ~board.tiles[i].mine /\ ~board.tiles[i].exposed
    /\ \A i \in Tiles \ {Idx(<<op.r, op.c>>)} : ~board.tiles[i].exposed

\* C13: expose on a non-mine tile whose index is already in seen returns
\* hit = false and leaves the whole board unchanged.
C13_SeenTileExposeIsNoOp ==
    Constructed =>
        \A rc \in InCoords :
            (~board.tiles[Idx(rc)].mine /\ Idx(rc) \in board.seen) =>
                LET res == expose(board, rc[1], rc[2])
                IN  /\ res.result = "Ok(false)"
                    /\ res.board = board

\* an expose has just been made on a tile that was seen before: the tile is
\* seen, safe and without a flag, yet not exposed, which the fill never
\* leaves behind on a tile it newly sees
C13_Witness ==
    /\ op.name = "expose"
    /\ InRange(op.r, op.c)
    /\ op.result = "Ok(false)"
    /\ Idx(<<op.r, op.c>>) \in board.seen
    /\ ~tile(board, op.r, op.c).mine
    /\ ~tile(board, op.r, op.c).flagged
    /\ ~tile(board, op.r, op.c).exposed

----------------------------------------------------------------------------
(* C14: expose_all against expose on every coordinate *)

\* the orders in which the tiles of the board can be visited once each
TileOrders ==
    {p \in [1..Cardinality(Tiles) -> Tiles] :
        \A x, y \in 1..Cardinality(Tiles) : p[x] = p[y] => x = y}

RECURSIVE expose_each(_, _, _)
\* expose called on the coordinates of p[k], p[k+1], ..
expose_each(b, p, k) ==
    IF k > Len(p) THEN b
    ELSE LET coord == coord_from_index(p[k], b.columns)
         IN  expose_each(expose(b, coord[1], coord[2]).board, p, k + 1)

\* C14: expose_all() ends in the same seen set and the same exposed bits as
\* expose called exactly once on each coordinate, in any order.
C14_ExposeAllIsAnyOrder ==
    Constructed =>
        LET all == expose_all(board)
        IN  /\ all.result = "Ok"
            /\ \A p \in TileOrders :
                 LET each == expose_each(board, p, 1)
                 IN  /\ each.seen = all.board.seen
                     /\ \A i \in Tiles :
                          each.tiles[i].exposed = all.board.tiles[i].exposed

\* expose_all has run on a board of three tiles or more with a mine, after a
\* flag was put on a safe tile and an expose had already seen some tile
C14_Witness ==
    /\ op.name = "expose_all"
    /\ Cardinality(Tiles) >= 3
    /\ \E i \in MineTiles : board.tiles[i].exposed
    /\ \E i \in SafeTiles : board.tiles[i].flagged /\ ~board.tiles[i].exposed
    /\ \E i \in SafeTiles : board.tiles[i].exposed

----------------------------------------------------------------------------
(* C15: exposed and seen only grow *)

\* C15: across expose, flag, expose_all and flag_all calls no exposed bit
\* goes back to false and no index leaves seen.
C15_ExposedAndSeenOnlyGrow ==
    [][/\ \A i \in DOMAIN board.tiles :
             board.tiles[i].exposed => board'.tiles[i].exposed
       /\ board.seen \subseteq board'.seen]_vars

\* a flood fill has stopped on a tile beside a mine that was exposed before,
\* and the mine is still exposed
C15_Witness ==
    /\ op.name = "expose"
    /\ InRange(op.r, op.c)
    /\ op.result = "Ok(false)"
    /\ \E i \in tile(board, op.r, op.c).adjacent_tiles :
          board.tiles[i].mine /\ board.tiles[i].exposed
    /\ tile(board, op.r, op.c).exposed

----------------------------------------------------------------------------
(* C16: the fresh board and what never changes *)

\* the fields of the Board that are fixed at construction
Fixed(b) ==
    [rows |-> b.rows,
     columns |-> b.columns,
     mines |-> b.mines,
     tiles |-> [i \in DOMAIN b.tiles |->
                  [mine |-> b.tiles[i].mine,
                   adjacent_tiles |-> b.tiles[i].adjacent_tiles,
                   adjacent_mines |-> b.tiles[i].adjacent_mines]]]

\* C16: a board built with mines <= rows*columns has rows*columns tiles,
\* exactly `mines` of them mines, no tile exposed or flagged, seen empty and
\* both counters zero; and no later expose, flag, expose_all or flag_all call
\* changes the mine layout, the adjacency, rows, columns or mines.
C16_FreshBoardAndFixedFields ==
    /\ []((op.name = "new" /\ op.result = "Ok") =>
            /\ Cardinality(Tiles) = board.rows * board.columns
            /\ Tiles = 0..(board.rows * board.columns - 1)
            /\ Cardinality(MineTiles) = board.mines
            /\ \A i \in Tiles : ~board.tiles[i].exposed /\ ~board.tiles[i].flagged
            /\ board.seen = {}
            /\ board.flagged_cells = 0
            /\ board.correctly_flagged_mines = 0)
    /\ [][Fixed(board') = Fixed(board)]_vars

\* flag_all has run on a board with mines after tiles were exposed, and the
\* board still has all its mines
C16_Witness ==
    /\ op.name = "flag_all"
    /\ board.mines >= 1
    /\ Cardinality(MineTiles) = board.mines
    /\ \E i \in MineTiles : board.tiles[i].flagged
    /\ \E i \in Tiles : board.tiles[i].exposed

----------------------------------------------------------------------------
(* C17: flagged_cells against the flags on the board *)

FlaggedTiles == {i \in Tiles : board.tiles[i].flagged}

\* C17: after any sequence of expose, flag, expose_all and flag_all calls,
\* flagged_cells equals the number of tiles whose flagged bit is true.
C17_FlaggedCellsIsCount ==
    Constructed => board.flagged_cells = Cardinality(FlaggedTiles)

----------------------------------------------------------------------------
(* C18: what a flood fill sees *)

RECURSIVE ReachFrom(_, _)
\* the tiles joined to the set R by chains of adjacent tiles in which every
\* tile but the last has adjacent_mines = 0
ReachFrom(b, R) ==
    LET step == R \cup UNION {b.tiles[i].adjacent_tiles :
                                i \in {j \in R : b.tiles[j].adjacent_mines = 0}}
    IN  IF step = R THEN R ELSE ReachFrom(b, step)

\* C18: an expose of (r,c) that returns hit = false leaves seen equal to the
\* old seen united with the tiles reachable from (r,c); each tile newly in
\* seen is exposed unless it is flagged; nothing else changes. So seen stays
\* closed: a seen tile with adjacent_mines = 0 has all its neighbours in seen.
C18_FillSeesTheReachableTiles ==
    Constructed =>
        /\ \A i \in board.seen :
              board.tiles[i].adjacent_mines = 0 =>
                  board.tiles[i].adjacent_tiles \subseteq board.seen
        /\ \A rc \in InCoords :
              ~board.tiles[Idx(rc)].mine =>
                LET res == expose(board, rc[1], rc[2])
                    new == ReachFrom(board, {Idx(rc)}) \ board.seen
                IN  /\ res.result = "Ok(false)"
                    /\ res.board.seen = board.seen \cup ReachFrom(board, {Idx(rc)})
                    /\ \A i \in new :
                          /\ res.board.tiles[i].exposed = ~board.tiles[i].flagged
                          /\ res.board.tiles[i].flagged = board.tiles[i].flagged
                    /\ \A i \in Tiles \ new : res.board.tiles[i] = board.tiles[i]
                    /\ res.board.flagged_cells = board.flagged_cells
                    /\ res.board.correctly_flagged_mines = board.correctly_flagged_mines

\* a fill started on a tile without adjacent mines has gone on to a flagged
\* tile beside a mine: that tile is seen and not exposed, the mine is not seen
C18_Witness ==
    /\ op.name = "expose"
    /\ InRange(op.r, op.c)
    /\ op.result = "Ok(false)"
    /\ tile(board, op.r, op.c).adjacent_mines = 0
    /\ tile(board, op.r, op.c).exposed
    /\ \E i \in tile(board, op.r, op.c).adjacent_tiles :
          /\ i \in board.seen
          /\ board.tiles[i].adjacent_mines > 0
          /\ board.tiles[i].flagged
          /\ ~board.tiles[i].exposed
    /\ \E i \in MineTiles : i \notin board.seen

----------------------------------------------------------------------------
(* C19: no mine in seen *)

\* C19: seen contains no mine index; hence a non-mine tile is exposed only if
\* it is in seen, and |seen| <= rows*columns - mines.
C19_NoMineInSeen ==
    Constructed =>
        /\ board.seen \cap MineTiles = {}
        /\ \A i \in SafeTiles : board.tiles[i].exposed => i \in board.seen
        /\ Cardinality(board.seen) <= board.rows * board.columns - board.mines

\* every safe tile of a board with a mine is in seen, the mine has been
\* exposed directly and is not in seen
C19_Witness ==
    /\ op.name \in {"expose", "expose_all"}
    /\ Cardinality(Tiles) >= 3
    /\ board.seen = SafeTiles
    /\ \E i \in MineTiles : board.tiles[i].exposed /\ i \notin board.seen
    /\ \E i \in SafeTiles : board.tiles[i].adjacent_mines = 0

----------------------------------------------------------------------------
(* C20: next() while the receiver lives *)

\* C20: under any interleaving of the input thread and the tick thread, while
\* the receiver has not been dropped every call to next() eventually returns
\* Ok(event) and never Err; a producer thread drops its sender only after a
\* send of its own has failed, which happens only after the receiver is
\* dropped; once the receiver is dropped the tick thread exits at its next
\* send attempt.
C20_NextReturnsOkWhileReceiverLives ==
    /\ [](events.result # "Err")
    /\ []((events.input_thread = "returned" \/ events.tick_thread = "exited")
             => events.rx = "dropped")
    /\ (events.next = "recv")
          ~> (events.next = "idle" /\ events.result \in {"Ok(Input)", "Ok(Tick)"})
    /\ (events.rx = "dropped") ~> (events.tick_thread = "exited")

\* a call to next has returned a key, the receiver has then been dropped and
\* both threads have stopped on their failed sends
C20_Witness ==
    /\ events.result = "Ok(Input)"
    /\ events.rx = "dropped"
    /\ events.tick_thread = "exited"
    /\ events.input_thread = "returned"

====
